---- MODULE Spec2Model ----
(***************************************************************************)
(* Model of the chinese-telegraph crate (src/chinese-telegraph/src/lib.rs). *)
(*                                                                         *)
(* The crate exposes two pure functions over two static perfect-hash maps: *)
(*   to_telegraph(character: &str, table: Table) -> Option<usize>          *)
(*   to_telegraph_string(character: &str, table: Table) -> Option<String>  *)
(*                                                                         *)
(* A &str is a finite sequence of characters; a character is written by    *)
(* its code point ("U+9019").  Option<T> is a sequence of length 0 (None)  *)
(* or 1 (Some(v)).  A String of decimal digits is a sequence of the        *)
(* one-character strings "0" .. "9".                                       *)
(***************************************************************************)
EXTENDS Integers, Sequences, FiniteSets, TLC

VARIABLES
    tw,      \* the static tw::TW_TABLE as the running program holds it
    cn,      \* the static cn::CN_TABLE as the running program holds it
    call,    \* the call that returned last: caller, function, arguments, result
    called   \* the callers that have made a call so far

vars == <<tw, cn, call, called>>

(* Longest input string the callers present. *)
MaxLen == 2

(***************************************************************************)
(* Characters of the inputs.  U+9019, U+8FD9, U+4E00 and U+1F980 are the   *)
(* characters of the crate's unit tests; U+E000 is a private-use code      *)
(* point standing for a character both standards list with different codes.*)
(***************************************************************************)
Chars == {"U+4E00", "U+8FD9", "U+9019", "U+E000", "U+1F980"}

RECURSIVE StringsOfLen(_)
StringsOfLen(n) ==
    IF n = 0 THEN {<<>>}
    ELSE {Append(s, ch) : s \in StringsOfLen(n - 1), ch \in Chars}

(* Every &str of at most MaxLen characters. *)
Strings == UNION {StringsOfLen(n) : n \in 0..MaxLen}

(* enum Table { Both, TW, CN } *)
Table == {"Both", "TW", "CN"}

(* The callers sharing the two statics. *)
Callers == {"caller1", "caller2"}

(* Option<T> *)
None == <<>>
Some(v) == <<v>>
IsSome(o) == Len(o) = 1
Unwrap(o) == o[1]

(* A Traditional table holding a five-digit code. *)
TW_TABLE_five_digits ==
    (<<"U+4E00">> :> 1) @@ (<<"U+9019">> :> 16638) @@ (<<"U+E000">> :> 0)

(***************************************************************************)
(* tw::TW_TABLE, the Traditional table: one-character keys, codes 0..9999. *)
(***************************************************************************)
TW_TABLE ==
    (<<"U+4E00">> :> 1) @@ (<<"U+9019">> :> 6638) @@ (<<"U+E000">> :> 0)

(***************************************************************************)
(* cn::CN_TABLE, the Simplified table.                                     *)
(***************************************************************************)
CN_TABLE ==
    (<<"U+4E00">> :> 1) @@ (<<"U+8FD9">> :> 6638) @@ (<<"U+E000">> :> 9999)

(* phf::Map::get(key).copied(): exact match of the whole key. *)
Get(map, key) == IF key \in DOMAIN map THEN Some(map[key]) ELSE None

(* Option::or_else *)
OrElse(o, alt) == IF IsSome(o) THEN o ELSE alt

(* Lookup with the Simplified table searched first under Both. *)
Lookup_cn_first(twt, cnt, character, table) ==
    CASE table = "Both" -> OrElse(Get(cnt, character), Get(twt, character))
      [] table = "TW"   -> Get(twt, character)
      [] table = "CN"   -> Get(cnt, character)

(* Lookup with the or_else fallback of Both left out. *)
Lookup_no_fallback(twt, cnt, character, table) ==
    CASE table = "Both" -> Get(twt, character)
      [] table = "TW"   -> Get(twt, character)
      [] table = "CN"   -> Get(cnt, character)

(* Lookup with the TW arm falling back to the Simplified table. *)
Lookup_tw_falls_back(twt, cnt, character, table) ==
    CASE table = "Both" -> OrElse(Get(twt, character), Get(cnt, character))
      [] table = "TW"   -> OrElse(Get(twt, character), Get(cnt, character))
      [] table = "CN"   -> Get(cnt, character)

(* Lookup with the CN arm searching the Traditional table first. *)
Lookup_cn_tries_tw(twt, cnt, character, table) ==
    CASE table = "Both" -> OrElse(Get(twt, character), Get(cnt, character))
      [] table = "TW"   -> Get(twt, character)
      [] table = "CN"   -> OrElse(Get(twt, character), Get(cnt, character))

(* The match of to_telegraph over the two tables it is given. *)
Lookup(twt, cnt, character, table) ==
    CASE table = "Both" -> OrElse(Get(twt, character), Get(cnt, character))
      [] table = "TW"   -> Get(twt, character)
      [] table = "CN"   -> Get(cnt, character)

(* to_telegraph looking up the first character of its input only. *)
to_telegraph_first_char(character, table) ==
    Lookup(tw, cn,
           IF Len(character) = 0 THEN character ELSE <<character[1]>>,
           table)

to_telegraph(character, table) == Lookup(tw, cn, character, table)

(* The decimal digits of a usize, most significant first. *)
DigitChar(d) == <<"0", "1", "2", "3", "4", "5", "6", "7", "8", "9">>[d + 1]

RECURSIVE Decimal(_)
Decimal(num) ==
    IF num < 10 THEN <<DigitChar(num)>>
    ELSE Append(Decimal(num \div 10), DigitChar(num % 10))

RECURSIVE PadZeros(_, _)
PadZeros(str, width) ==
    IF Len(str) >= width THEN str ELSE PadZeros(<<"0">> \o str, width)

(* format!("{}", num): the padding left out. *)
Format_unpadded(num) == Decimal(num)

(* format!("{:04}", num): zero-padded to a minimum width of 4. *)
Format04(num) == PadZeros(Decimal(num), 4)

(* Option::map(|num| format!("{:04}", num)) *)
MapFormat(code) == IF IsSome(code) THEN Some(Format04(Unwrap(code))) ELSE None

(* to_telegraph_string formatting unwrap_or(0) instead of mapping. *)
to_telegraph_string_unwrap_or(character, table) ==
    LET code == to_telegraph(character, table)
    IN  Some(Format04(IF IsSome(code) THEN Unwrap(code) ELSE 0))

to_telegraph_string(character, table) ==
    MapFormat(to_telegraph(character, table))

(* No call has returned yet. *)
Idle ==
    [caller |-> "nobody", fn |-> "idle", character |-> <<>>,
     table |-> "Both", result |-> None]

Init ==
    /\ tw = TW_TABLE
    /\ cn = CN_TABLE
    /\ call = Idle
    /\ called = {}

(* ToTelegraph that memoises a code found by the Both fallback in tw. *)
ToTelegraph_memoising(c) ==
    \E character \in Strings, table \in Table :
        LET code == to_telegraph(character, table)
        IN  /\ call' = [caller |-> c, fn |-> "to_telegraph",
                        character |-> character, table |-> table,
                        result |-> code]
            /\ called' = called \cup {c}
            /\ tw' = IF table = "Both" /\ IsSome(code)
                        /\ character \notin DOMAIN tw
                     THEN (character :> Unwrap(code)) @@ tw
                     ELSE tw
            /\ cn' = cn

(* Caller c calls to_telegraph with any string and any selector. *)
ToTelegraph(c) ==
    /\ \E character \in Strings, table \in Table :
          call' = [caller |-> c, fn |-> "to_telegraph",
                   character |-> character, table |-> table,
                   result |-> to_telegraph(character, table)]
    /\ called' = called \cup {c}
    /\ UNCHANGED <<tw, cn>>

(* ToTelegraphString that takes the entry it reads out of cn. *)
ToTelegraphString_taking(c) ==
    \E character \in Strings, table \in Table :
        /\ call' = [caller |-> c, fn |-> "to_telegraph_string",
                    character |-> character, table |-> table,
                    result |-> to_telegraph_string(character, table)]
        /\ called' = called \cup {c}
        /\ cn' = IF table = "CN"
                 THEN [k \in DOMAIN cn \ {character} |-> cn[k]]
                 ELSE cn
        /\ tw' = tw

(* Caller c calls to_telegraph_string with any string and any selector. *)
ToTelegraphString(c) ==
    /\ \E character \in Strings, table \in Table :
          call' = [caller |-> c, fn |-> "to_telegraph_string",
                   character |-> character, table |-> table,
                   result |-> to_telegraph_string(character, table)]
    /\ called' = called \cup {c}
    /\ UNCHANGED <<tw, cn>>

Next ==
    \E c \in Callers :
        \/ ToTelegraph(c)
        \/ ToTelegraphString(c)

Spec == Init /\ [][Next]_vars

(***************************************************************************)
(* Properties                                                              *)
(***************************************************************************)

(* The value of a string of decimal digits; -1 for any other string. *)
DigitValue(ch) ==
    IF \E d \in 0..9 : DigitChar(d) = ch
    THEN CHOOSE d \in 0..9 : DigitChar(d) = ch
    ELSE -1

RECURSIVE DecimalValue(_)
DecimalValue(str) ==
    IF Len(str) = 0 THEN 0
    ELSE LET last == DigitValue(str[Len(str)])
             rest == DecimalValue(SubSeq(str, 1, Len(str) - 1))
         IN  IF last < 0 \/ rest < 0 THEN -1 ELSE 10 * rest + last

IsToTelegraph == call.fn = "to_telegraph"
IsToTelegraphString == call.fn = "to_telegraph_string"

(* What the table holds for a key, read off the table itself. *)
Entry(map, key) == IF key \in DOMAIN map THEN Some(map[key]) ELSE None

(* The value the call returns when it is the first call the program makes. *)
FirstResult(c) ==
    IF c.fn = "to_telegraph"
    THEN Lookup(TW_TABLE, CN_TABLE, c.character, c.table)
    ELSE MapFormat(Lookup(TW_TABLE, CN_TABLE, c.character, c.table))

(* C1: to_telegraph returns None, under each of the three selectors, for   *)
(* every input of zero characters or of two or more characters, also when  *)
(* the characters of the input are keys of the tables one by one.          *)
C1_NoneUnlessOneCharacter ==
    (IsToTelegraph /\ Len(call.character) # 1) => call.result = None

C1_Witness ==
    /\ IsToTelegraph
    /\ call.character = <<"U+9019", "U+4E00">>
    /\ call.table = "Both"
    /\ <<"U+9019">> \in DOMAIN tw
    /\ <<"U+4E00">> \in DOMAIN tw
    /\ call.result = None

(* C2: for a character present in both tables, to_telegraph under Both     *)
(* returns the Traditional table's code, also when the Simplified table    *)
(* assigns a different one.                                                *)
C2_BothPrefersTraditional ==
    (/\ IsToTelegraph
     /\ call.table = "Both"
     /\ call.character \in DOMAIN tw
     /\ call.character \in DOMAIN cn)
    => call.result = Some(tw[call.character])

C2_Witness ==
    /\ IsToTelegraph
    /\ call.table = "Both"
    /\ call.character \in DOMAIN tw \cap DOMAIN cn
    /\ tw[call.character] # cn[call.character]
    /\ call.result = Some(tw[call.character])

(* C3: for an input absent from the Traditional table, to_telegraph under  *)
(* Both returns what the Simplified table holds for it: Some(n) when it    *)
(* maps the input to n, None when the input is in neither table.           *)
C3_BothFallsBackToSimplified ==
    (/\ IsToTelegraph
     /\ call.table = "Both"
     /\ call.character \notin DOMAIN tw)
    => call.result = Entry(cn, call.character)

C3_Witness ==
    /\ IsToTelegraph
    /\ call.table = "Both"
    /\ call.character \notin DOMAIN tw
    /\ call.character \in DOMAIN cn
    /\ call.result = Some(cn[call.character])

(* C4: to_telegraph under TW returns what the Traditional table alone      *)
(* holds for the input: None when it is absent there, even if the          *)
(* Simplified table has it.                                                *)
C4_TWIsTraditionalAlone ==
    (IsToTelegraph /\ call.table = "TW")
    => call.result = Entry(tw, call.character)

C4_Witness ==
    /\ IsToTelegraph
    /\ call.table = "TW"
    /\ call.character \notin DOMAIN tw
    /\ call.character \in DOMAIN cn
    /\ call.result = None

(* C5: to_telegraph under CN returns what the Simplified table alone holds *)
(* for the input, also when the Traditional table maps it to another code, *)
(* and None when it is absent there even if the Traditional table has it.  *)
C5_CNIsSimplifiedAlone ==
    (IsToTelegraph /\ call.table = "CN")
    => call.result = Entry(cn, call.character)

C5_Witness ==
    /\ IsToTelegraph
    /\ call.table = "CN"
    /\ call.character \in DOMAIN tw \cap DOMAIN cn
    /\ tw[call.character] # cn[call.character]
    /\ call.result = Some(cn[call.character])

(* C6: when to_telegraph returns a code n, to_telegraph_string returns a   *)
(* string of exactly 4 decimal digits whose value is n.                    *)
C6_FourDigitsOfTheCode ==
    (IsToTelegraphString /\ IsSome(to_telegraph(call.character, call.table)))
    => /\ IsSome(call.result)
       /\ Len(Unwrap(call.result)) = 4
       /\ \A i \in 1..Len(Unwrap(call.result)) :
              DigitValue(Unwrap(call.result)[i]) >= 0
       /\ DecimalValue(Unwrap(call.result))
              = Unwrap(to_telegraph(call.character, call.table))

C6_Witness ==
    /\ IsToTelegraphString
    /\ to_telegraph(call.character, call.table) = Some(1)
    /\ call.result = Some(<<"0", "0", "0", "1">>)

(* C7: to_telegraph_string returns None exactly when to_telegraph returns  *)
(* None for the same input and selector.                                   *)
C7_NoneExactlyWhenLookupIsNone ==
    IsToTelegraphString
    => (call.result = None
          <=> to_telegraph(call.character, call.table) = None)

C7_Witness ==
    /\ IsToTelegraphString
    /\ Len(call.character) = 1
    /\ to_telegraph(call.character, call.table) = None
    /\ call.result = None

(* C8: whatever calls came before, a call returns what the same function   *)
(* with the same input and selector returns as the first call of the       *)
(* program, and a call repeating the arguments of the call before it       *)
(* returns that call's result.                                             *)
C8_ResultIndependentOfHistory ==
    /\ [](call.fn # "idle" => call.result = FirstResult(call))
    /\ [][(/\ call.fn = call'.fn
           /\ call.character = call'.character
           /\ call.table = call'.table)
          => call'.result = call.result]_vars

C8_Witness ==
    /\ called = Callers
    /\ IsToTelegraph
    /\ call.table = "TW"
    /\ call.character \in DOMAIN CN_TABLE \ DOMAIN TW_TABLE
    /\ call.result = None

(* C9: every call of either function by either caller leaves the           *)
(* Traditional and the Simplified table as they were.                      *)
C9_TablesNeverChange == [][tw' = tw /\ cn' = cn]_vars

C9_Witness ==
    /\ called = Callers
    /\ IsToTelegraphString
    /\ call.table = "CN"
    /\ IsSome(call.result)
    /\ tw = TW_TABLE
    /\ cn = CN_TABLE

(* C10: every code to_telegraph returns lies in 0..9999.                   *)
C10_CodeInRange ==
    (IsToTelegraph /\ IsSome(call.result))
    => Unwrap(call.result) \in 0..9999

C10_Witness ==
    /\ IsToTelegraph
    /\ call.result = Some(9999)

====
